---- MODULE Spec2Model ----
(***************************************************************************)
(* Model of the embsuivi GUI helpers and application:                      *)
(*   helpers.py  weighted_median, compute_weighted_median_similarity,      *)
(*               compute_weighted_median_ordered_similarity,               *)
(*               AdvancedParameters,                                       *)
(*               display_neighborhoods_elements_comparison                 *)
(*   app.py      get_advanced_parameters, create_comparison, main,         *)
(*               statistics_comparison                                     *)
(*                                                                         *)
(* Weights and frequencies are float64 numbers.  The record                *)
(* [hi |-> h, lo |-> l], with naturals h and l < 2^53, is the number       *)
(* h * 2^53 + l: 1.0 is [hi |-> 0, lo |-> 1] and 9007199254740994.0 is     *)
(* [hi |-> 1, lo |-> 2].  It is a float64 when l is a multiple of the      *)
(* spacing of the float64 numbers at that magnitude (1 below 2^53, 2 from  *)
(* 2^53, 4 from 2^54, ...).  An addition is the exact sum rounded to the   *)
(* nearest float64, ties to the even mantissa, as IEEE 754 does; doubling  *)
(* and halving are exact, so the test c[j] < 0.5 * c[-1] of searchsorted   *)
(* is 2 * c[j] < c[-1].  Values and similarity scores are small integers.  *)
(***************************************************************************)
EXTENDS Integers, Sequences, FiniteSets

VARIABLES
    comparison,           \* EmbeddingComparison: the two similarity mappings
    emb1, emb2,           \* the two embeddings' frequency data
    values, weights,      \* the arguments of the last weighted_median call
    order,                \* i = np.argsort(values) of that call
    result,               \* what the call returned or raised
    called,               \* which function was called ("none" before)
    obj,                  \* the last AdvancedParameters object constructed
    main_pc,              \* position of app.main
    advanced_parameters,  \* main's local advanced_parameters
    built,                \* the EmbeddingComparison create_comparison built
    dists1, dists2,       \* EmbeddingReport.nearest_neighbors_distances
    stats,                \* what statistics_comparison handed to the charts
    neighborhoods_1,      \* neighbor list of the displayed key, embedding 1
    neighborhoods_2,      \* neighbor list of the displayed key, embedding 2
    emb1_labels,          \* labels of the first embedding
    emb2_labels,          \* labels of the second embedding
    display               \* what the expander of the key shows

wmVars   == <<comparison, emb1, emb2, values, weights, order, result, called>>
cfgVars  == <<obj, main_pc, advanced_parameters, built>>
statVars == <<dists1, dists2, stats>>
dispVars == <<neighborhoods_1, neighborhoods_2, emb1_labels, emb2_labels, display>>
vars     == <<wmVars, cfgVars, statVars, dispVars>>

(***************************************************************************)
(* Bounds of the model.                                                    *)
(***************************************************************************)
MaxLen     == 4   \* longest input of a direct weighted_median call
MaxTieLen  == 3   \* longest input when every reordering is compared
MaxEqualLen == 6  \* longest input of a call with all weights equal
MaxSim     == 1   \* similarity scores are 0..MaxSim
MaxFreq    == 1   \* frequencies are 2 * (0..MaxFreq)
MaxKeys    == 2   \* rows of a nearest_neighbors_distances table

ValueSet   == {1, 2, 3}
SimSet     == 0..MaxSim
KeySet     == {"a", "b"}

(***************************************************************************)
(* Generic helpers.                                                        *)
(***************************************************************************)
SeqsUpTo(S, n) == UNION {[1..k -> S] : k \in 0..n}

Range(s) == {s[j] : j \in DOMAIN s}

IsInjective(s) == \A a, b \in DOMAIN s : s[a] = s[b] => a = b

RECURSIVE SumSeq(_)
SumSeq(s) == IF s = <<>> THEN 0 ELSE s[1] + SumSeq(Tail(s))

\* the sequence p with x put at position k
InsertAt(p, k, x) == SubSeq(p, 1, k - 1) \o <<x>> \o SubSeq(p, k, Len(p))

\* the permutations of 1..n, as sequences
RECURSIVE Permutations(_)
Permutations(n) ==
    IF n = 0 THEN {<<>>}
    ELSE UNION {{InsertAt(p, k, n) : k \in 1..n} : p \in Permutations(n - 1)}

Returned(v) == [raised |-> "", value |-> v]
Raised(e)   == [raised |-> e, value |-> 0]
NoResult    == Raised("not called")

(***************************************************************************)
(* float64 numbers h * 2^53 + l and their arithmetic.                      *)
(***************************************************************************)
float64(h, l) == [hi |-> h, lo |-> l]

Zero == float64(0, 0)

\* the spacing of the float64 numbers in [h * 2^53, (h + 1) * 2^53)
RECURSIVE spacing(_)
spacing(h) == IF h = 0 THEN 1 ELSE IF h = 1 THEN 2 ELSE 2 * spacing(h \div 2)

\* the float64 nearest to the exact number h * 2^53 + l, ties to the even
\* mantissa.  The mantissa is (h * 2^53 + l) / spacing(h), whose parity is
\* that of l \div spacing(h).
fl(h, l) ==
    LET q == spacing(h)
        m == l \div q
        r == l % q
    IN  float64(h, IF 2 * r > q \/ (2 * r = q /\ m % 2 = 1) THEN (m + 1) * q ELSE m * q)

\* x + y in float64
add(x, y) == fl(x.hi + y.hi, x.lo + y.lo)

\* 2 * x, exact
twice(x) == float64(2 * x.hi, 2 * x.lo)

\* x / 2, exact for the even numbers below 2^53 the frequencies add up to
halve(x) == float64(x.hi \div 2, x.lo \div 2)

\* x < y
less(x, y) == x.hi < y.hi \/ (x.hi = y.hi /\ x.lo < y.lo)

\* the weights of the direct calls: 0.0, 1.0 and 2^53 + 2
WeightSet  == {Zero, float64(0, 1), float64(1, 2)}

\* the weights of the calls with equal weights: 1.0 and 2^53 + 6
EqualWeightSet == {float64(0, 1), float64(1, 6)}

\* frequencies: the even numbers 0.0, 2.0, ...
FreqSet    == {float64(0, 2 * f) : f \in 0..MaxFreq}

(***************************************************************************)
(* weighted_median (helpers.py 204-207)                                    *)
(***************************************************************************)

\* np.argsort(values): the default kind is not a stable sort, so every
\* permutation that puts the values in ascending order is a possible result.
argsort(vals) ==
    {p \in Permutations(Len(vals)) :
        \A a \in 1..(Len(vals) - 1) : vals[p[a]] <= vals[p[a + 1]]}

\* a[i]: fancy indexing of an array by an index array
take(a, i) == [j \in 1..Len(i) |-> a[i[j]]]

\* np.cumsum: c[0] = s[0], c[j] = c[j-1] + s[j], each a float64 addition
RECURSIVE cumsum(_)
cumsum(s) ==
    IF s = <<>> THEN <<>>
    ELSE LET front == cumsum(SubSeq(s, 1, Len(s) - 1))
         IN  Append(front, IF front = <<>> THEN s[Len(s)]
                           ELSE add(front[Len(front)], s[Len(s)]))

\* The binary search of np.searchsorted(c, 0.5 * t, side='left'), on the
\* 0-based half-open range [lo, hi): c[mid] < 0.5 * t is 2 * c[mid] < t.
RECURSIVE binsearch_left(_, _, _, _)
binsearch_left(c, t, lo, hi) ==
    IF lo >= hi THEN lo
    ELSE LET mid == lo + ((hi - lo) \div 2)
         IN  IF less(twice(c[mid + 1]), t)
             THEN binsearch_left(c, t, mid + 1, hi)
             ELSE binsearch_left(c, t, lo, mid)

\* The same search with side='right' (c[mid] <= 0.5 * t moves right).
RECURSIVE binsearch_right(_, _, _, _)
binsearch_right(c, t, lo, hi) ==
    IF lo >= hi THEN lo
    ELSE LET mid == lo + ((hi - lo) \div 2)
         IN  IF ~less(t, twice(c[mid + 1]))
             THEN binsearch_right(c, t, mid + 1, hi)
             ELSE binsearch_right(c, t, lo, mid)

searchsorted_right(c, t) == binsearch_right(c, t, 0, Len(c))

\* np.searchsorted(c, 0.5 * t): a 0-based index in 0..Len(c)
searchsorted(c, t) == binsearch_left(c, t, 0, Len(c))

\* weighted_median(values, weights), given the result i of np.argsort(values)
weighted_median(vals, wts, i) ==
    IF \E j \in 1..Len(i) : i[j] > Len(wts) THEN Raised("IndexError")
    ELSE LET c == cumsum(take(wts, i))
         IN  IF c = <<>> THEN Raised("IndexError")       \* c[-1] of an empty array
             ELSE LET pos == searchsorted(c, c[Len(c)])
                  IN  IF pos >= Len(i) THEN Raised("IndexError")
                      ELSE Returned(vals[i[pos + 1]])

(***************************************************************************)
(* compute_weighted_median_similarity and                                  *)
(* compute_weighted_median_ordered_similarity (helpers.py 210-237)         *)
(***************************************************************************)

\* Embedding.get_frequency: 0 when the embedding has no frequency for the key
get_frequency(emb, k) ==
    IF emb.frequency_set /\ k \in DOMAIN emb.frequencies
    THEN emb.frequencies[k] ELSE Zero

\* iterating a mapping yields its keys in insertion order
mapping_keys(mapping) == [j \in 1..Len(mapping) |-> mapping[j][1]]

\* neighborhoods_similarities_values / neighborhoods_ordered_similarities_values
mapping_values(mapping) == [j \in 1..Len(mapping) |-> mapping[j][2]]

\* freqs_mean computed from the first embedding alone
freqs_mean_first_only(e1, e2, mapping) ==
    [j \in 1..Len(mapping) |-> get_frequency(e1, mapping_keys(mapping)[j])]

\* freqs_mean = (freqs_1 + freqs_2) / 2
freqs_mean(e1, e2, mapping) ==
    LET freqs_1 == [j \in 1..Len(mapping) |-> get_frequency(e1, mapping_keys(mapping)[j])]
        freqs_2 == [j \in 1..Len(mapping) |-> get_frequency(e2, mapping_keys(mapping)[j])]
    IN  [j \in 1..Len(mapping) |-> halve(add(freqs_1[j], freqs_2[j]))]

(***************************************************************************)
(* Values of the variables a specification does not use.                   *)
(***************************************************************************)
NoEmbedding  == [frequency_set |-> FALSE, frequencies |-> <<>>]
NoComparison == [neighborhoods_similarities |-> <<>>,
                 neighborhoods_ordered_similarities |-> <<>>]
NoParameters == [cls |-> "none", n_neighbors |-> 0, max_emb_size |-> 0,
                 min_frequency |-> 0]
NoObject     == [by |-> "none", object |-> NoParameters]
NoBuilt      == [made |-> FALSE, n_neighbors |-> 0, n_samples |-> 0]
NoStats      == [shown |-> FALSE, error |-> "", mean_dist |-> <<>>, mean_first_dist |-> <<>>]
NoDisplay    == [status |-> "not called", expanders |-> <<>>]

IdleWM ==
    /\ comparison = NoComparison /\ emb1 = NoEmbedding /\ emb2 = NoEmbedding
    /\ values = <<>> /\ weights = <<>> /\ order = <<>>
    /\ result = NoResult /\ called = "none"

IdleCfg ==
    /\ obj = NoObject /\ main_pc = "start"
    /\ advanced_parameters = NoParameters /\ built = NoBuilt

IdleStats == dists1 = <<>> /\ dists2 = <<>> /\ stats = NoStats

IdleDisp ==
    /\ neighborhoods_1 = <<>> /\ neighborhoods_2 = <<>>
    /\ emb1_labels = <<>> /\ emb2_labels = <<>> /\ display = NoDisplay

(***************************************************************************)
(* Specification of direct calls of weighted_median.                       *)
(***************************************************************************)
Inputs(n, W) ==
    {vw \in SeqsUpTo(ValueSet, n) \X SeqsUpTo(W, n) : Len(vw[1]) = Len(vw[2])}

InitInputs(n, W) ==
    /\ \E vw \in Inputs(n, W) : values = vw[1] /\ weights = vw[2]
    /\ comparison = NoComparison /\ emb1 = NoEmbedding /\ emb2 = NoEmbedding
    /\ order = <<>> /\ result = NoResult /\ called = "none"
    /\ IdleCfg /\ IdleStats /\ IdleDisp

Init == InitInputs(MaxLen, WeightSet)

\* one call weighted_median(values, weights)
WeightedMedian ==
    /\ called = "none"
    /\ \E i \in argsort(values) :
          /\ order' = i
          /\ result' = weighted_median(values, weights, i)
    /\ called' = "weighted_median"
    /\ UNCHANGED <<comparison, emb1, emb2, values, weights>>
    /\ UNCHANGED <<cfgVars, statVars, dispVars>>

Next == WeightedMedian

Spec == Init /\ [][Next]_vars

InitTies == InitInputs(MaxTieLen, WeightSet)

SpecTies == InitTies /\ [][Next]_vars

\* calls whose weights are all equal to one positive number
InitEqual ==
    /\ \E vals \in SeqsUpTo(ValueSet, MaxEqualLen), w \in EqualWeightSet :
          /\ values = vals
          /\ weights = [j \in 1..Len(vals) |-> w]
    /\ comparison = NoComparison /\ emb1 = NoEmbedding /\ emb2 = NoEmbedding
    /\ order = <<>> /\ result = NoResult /\ called = "none"
    /\ IdleCfg /\ IdleStats /\ IdleDisp

SpecEqual == InitEqual /\ [][Next]_vars

(***************************************************************************)
(* Specification of the two compute_weighted_median_* functions.           *)
(***************************************************************************)
Mappings ==
    {m \in SeqsUpTo(KeySet \X SimSet, Cardinality(KeySet)) : IsInjective(mapping_keys(m))}

Comparisons ==
    {[neighborhoods_similarities |-> m, neighborhoods_ordered_similarities |-> o] :
        <<m, o>> \in {mo \in Mappings \X Mappings : mapping_keys(mo[1]) = mapping_keys(mo[2])}}

Embeddings ==
    {NoEmbedding} \cup
    {[frequency_set |-> TRUE, frequencies |-> f] :
        f \in UNION {[D -> FreqSet] : D \in SUBSET KeySet}}

InitSim ==
    /\ comparison \in Comparisons
    /\ emb1 \in Embeddings /\ emb2 \in Embeddings
    /\ values = <<>> /\ weights = <<>> /\ order = <<>>
    /\ result = NoResult /\ called = "none"
    /\ IdleCfg /\ IdleStats /\ IdleDisp

ComputeWeightedMedianSimilarity ==
    /\ called = "none"
    /\ values' = mapping_values(comparison.neighborhoods_similarities)
    /\ weights' = freqs_mean(emb1, emb2, comparison.neighborhoods_similarities)
    /\ \E i \in argsort(values') :
          /\ order' = i
          /\ result' = weighted_median(values', weights', i)
    /\ called' = "compute_weighted_median_similarity"
    /\ UNCHANGED <<comparison, emb1, emb2>>
    /\ UNCHANGED <<cfgVars, statVars, dispVars>>

ComputeWeightedMedianOrderedSimilarity ==
    /\ called = "none"
    /\ values' = mapping_values(comparison.neighborhoods_ordered_similarities)
    /\ weights' = freqs_mean(emb1, emb2, comparison.neighborhoods_ordered_similarities)
    /\ \E i \in argsort(values') :
          /\ order' = i
          /\ result' = weighted_median(values', weights', i)
    /\ called' = "compute_weighted_median_ordered_similarity"
    /\ UNCHANGED <<comparison, emb1, emb2>>
    /\ UNCHANGED <<cfgVars, statVars, dispVars>>

NextSim == ComputeWeightedMedianSimilarity \/ ComputeWeightedMedianOrderedSimilarity

SpecSim == InitSim /\ [][NextSim]_vars

(***************************************************************************)
(* Properties of weighted_median.                                          *)
(***************************************************************************)
NonNegative(wts) == \A j \in DOMAIN wts : ~less(wts[j], Zero)

\* some weight is positive: the total weight is positive
PositiveTotal(wts) == \E j \in DOMAIN wts : less(Zero, wts[j])

\* the exact sum of the weights, as a number h * 2^53 + l
RECURSIVE ExactSum(_)
ExactSum(wts) ==
    IF wts = <<>> THEN Zero
    ELSE LET rest == ExactSum(Tail(wts))
         IN  float64(wts[1].hi + rest.hi, wts[1].lo + rest.lo)

\* the cumulative sum of the weights of the first p values in the ascending
\* order i, added one after the other in floating point
RECURSIVE PrefixWeight(_, _, _)
PrefixWeight(wts, i, p) ==
    IF p = 1 THEN wts[i[1]] ELSE add(PrefixWeight(wts, i, p - 1), wts[i[p]])

\* the total weight: the cumulative sum at the last position
TotalWeight(wts, i) == PrefixWeight(wts, i, Len(i))

\* the positions, in the ascending order i, whose cumulative weight is at
\* least half of the total weight
HalfReached(wts, i) ==
    {p \in 1..Len(i) : ~less(twice(PrefixWeight(wts, i, p)), TotalWeight(wts, i))}

DirectCall == called = "weighted_median"

\* C1: for equal-length non-empty values and non-negative weights of positive
\* total, weighted_median returns the value at the first position, in
\* ascending order of the values, at which the cumulative weight (in that
\* order) is at least half of the total weight; the sums are the float64
\* sums of the weights in that order.
C1_FirstHalfPosition ==
    (DirectCall /\ Len(values) > 0 /\ NonNegative(weights) /\ PositiveTotal(weights))
    => /\ HalfReached(weights, order) # {}
       /\ \E p \in HalfReached(weights, order) :
             /\ \A q \in HalfReached(weights, order) : p <= q
             /\ result = Returned(values[order[p]])

\* a call whose half-total position is not the first position of the order,
\* whose cumulative weight meets half of the total exactly, and whose total
\* was rounded
C1_Witness ==
    /\ DirectCall /\ Len(values) = MaxLen /\ PositiveTotal(weights)
    /\ result.raised = ""
    /\ 1 \notin HalfReached(weights, order)
    /\ \E p \in HalfReached(weights, order) :
          twice(PrefixWeight(weights, order, p)) = TotalWeight(weights, order)
    /\ TotalWeight(weights, order) # ExactSum(weights)
    /\ result.value # values[order[1]]

\* C2: when every weight is 0 the call fails (ZeroTotalWeight / InvalidInput)
\* and never returns a value.
C2_ZeroTotalWeightFails ==
    (DirectCall /\ Len(values) > 0 /\ \A j \in DOMAIN weights : weights[j] = Zero)
    => result.raised # ""

\* C6: with all weights equal to one positive number, weighted_median is the
\* unweighted median: the middle element of the sorted values for an odd
\* length and the lower of the two middle elements for every even length.
C6_EqualWeightsMedian ==
    (/\ DirectCall /\ Len(values) > 0
     /\ less(Zero, weights[1]) /\ \A j \in DOMAIN weights : weights[j] = weights[1])
    => result = Returned(values[order[(Len(values) + 1) \div 2]])

\* the (value, weight) pairs reordered by the permutation r
Reordered(s, r) == [j \in 1..Len(s) |-> s[r[j]]]

\* C8: for non-negative weights of positive total the returned value does
\* not depend on the order the sort gives to equal values, nor on a
\* simultaneous reordering of the (value, weight) pairs.
C8_TieOrderIndependent ==
    (DirectCall /\ NonNegative(weights) /\ PositiveTotal(weights))
    => /\ \A i \in argsort(values) : weighted_median(values, weights, i) = result
       /\ \A r \in Permutations(Len(values)) :
             LET rv == Reordered(values, r)
                 rw == Reordered(weights, r)
             IN  \A i \in argsort(rv) : weighted_median(rv, rw, i) = result

(***************************************************************************)
(* Properties of the compute_weighted_median_* functions.                  *)
(***************************************************************************)
ComputeCall ==
    called \in {"compute_weighted_median_similarity",
                "compute_weighted_median_ordered_similarity"}

\* the similarity mapping the called function reads
CalledMapping ==
    IF called = "compute_weighted_median_similarity"
    THEN comparison.neighborhoods_similarities
    ELSE comparison.neighborhoods_ordered_similarities

\* C3: with no common keys (empty similarity mapping and value sequence) the
\* two functions do not raise an exception.
C3_EmptyDoesNotRaise ==
    (ComputeCall /\ CalledMapping = <<>>) => result.raised = ""

\* the frequency an embedding holds for a key, 0 when it holds none
FrequencyOrZero(emb, k) ==
    IF emb.frequency_set /\ k \in DOMAIN emb.frequencies THEN emb.frequencies[k] ELSE Zero

\* C4: at every position the weight passed to weighted_median is the mean
\* of the two embeddings' frequencies of the mapping's key at that position
\* (a missing frequency counting as 0), the value is the similarity of that
\* same key, and the function returns weighted_median of the two sequences.
C4_AlignedMeanWeights ==
    ComputeCall
    => /\ Len(values) = Len(CalledMapping) /\ Len(weights) = Len(CalledMapping)
       /\ \A j \in 1..Len(CalledMapping) :
             LET k == CalledMapping[j][1]
             IN  /\ twice(weights[j]) = ExactSum(<<FrequencyOrZero(emb1, k),
                                                     FrequencyOrZero(emb2, k)>>)
                 /\ values[j] = CalledMapping[j][2]
       /\ order \in argsort(values)
       /\ result = weighted_median(values, weights, order)

\* a call where the two embeddings hold different frequencies for a key and
\* one of them misses another key
C4_Witness ==
    /\ ComputeCall /\ Len(CalledMapping) = 2 /\ result.raised = ""
    /\ emb1.frequency_set /\ emb2.frequency_set
    /\ \E j \in 1..2 :
          LET k == CalledMapping[j][1]
          IN  /\ k \in DOMAIN emb1.frequencies /\ k \notin DOMAIN emb2.frequencies
              /\ less(Zero, emb1.frequencies[k]) /\ less(Zero, weights[j])
    /\ weights[1] # weights[2]

\* C5: when is_frequency_set() is false for both embeddings and the
\* comparison has at least one common key, the two functions complete
\* without raising.
C5_NoFrequenciesCompletes ==
    (/\ ComputeCall /\ Len(CalledMapping) > 0
     /\ ~emb1.frequency_set /\ ~emb2.frequency_set)
    => result.raised = ""

\* a call on two keys with both embeddings without frequencies
C5_Witness ==
    /\ ComputeCall /\ Len(CalledMapping) = 2
    /\ ~emb1.frequency_set /\ ~emb2.frequency_set
    /\ \A j \in DOMAIN weights : weights[j] = Zero
    /\ result.raised = ""

(***************************************************************************)
(* AdvancedParameters, get_advanced_parameters, create_comparison, main    *)
(***************************************************************************)
MinNeighbors  == 1        \* min_value of the n_neighbors input
MaxNeighbors  == 1000     \* max_value of the n_neighbors input
MinEmbSize    == 100      \* min_value of the max_emb_size input
MaxEmbSize    == 200000   \* max_value of the max_emb_size input
MinFrequency  == 0        \* min_value of the min_frequency input
MaxFrequency  == 1        \* max_value of the min_frequency input

\* what a user may try to enter, and what a caller may pass to a constructor
EnteredNeighbors == {-1, 0, 1, 2}
EnteredSizes     == {0, 99, 100, 10000, 200001}
EnteredFrequency == {0, 1}

\* st.number_input(min_value=lo, max_value=hi): the widget keeps the entered
\* number inside [lo, hi]
number_input(lo, hi, entered) ==
    IF entered < lo THEN lo ELSE IF entered > hi THEN hi ELSE entered

\* helpers.AdvancedParameters(**kwargs): setattr of every keyword, no check
AdvancedParameters(n, m, f) ==
    [cls |-> "helpers", n_neighbors |-> n, max_emb_size |-> m, min_frequency |-> f]

\* helpers.AdvancedParameters.selection()
selection(n, m, f) ==
    AdvancedParameters(number_input(MinNeighbors, MaxNeighbors, n),
                       number_input(MinEmbSize, MaxEmbSize, m),
                       number_input(MinFrequency, MaxFrequency, f))

\* app.AdvancedParameters: namedtuple("AdvancedParameters", [n_neighbors, max_emb_size])
AppAdvancedParameters(n, m) ==
    [cls |-> "app", n_neighbors |-> n, max_emb_size |-> m, min_frequency |-> 0]

\* app.get_advanced_parameters()
get_advanced_parameters(n, m) ==
    AppAdvancedParameters(number_input(MinNeighbors, MaxNeighbors, n),
                          number_input(MinEmbSize, MaxEmbSize, m))

\* app.create_comparison: EmbeddingComparison(..., n_neighbors).sampled_comparison(n_samples)
create_comparison(n_neigbhors, max_emb_size) ==
    [made |-> TRUE, n_neighbors |-> n_neigbhors, n_samples |-> max_emb_size]

(***************************************************************************)
(* statistics_comparison (app.py 144-201)                                  *)
(***************************************************************************)
DistSet == {0, 2, 4}

\* the n_neighbors a comparison handed to statistics_comparison may hold
Widths == {1, 2}

\* a row of nearest_neighbors_distances: the distances to the n nearest
\* neighbors, nearest first
DistRows(n) ==
    {row \in [1..n -> DistSet] : \A a \in 1..(n - 1) : row[a] <= row[a + 1]}

\* the tables keys x n_neighbors of at most k keys
DistTables(n, k) == UNION {[1..j -> DistRows(n)] : j \in 1..k}

\* np.mean(table, axis=1)
mean_axis1(table) == [j \in 1..Len(table) |-> SumSeq(table[j]) \div Len(table[j])]

\* table[:, 0]
first_column(table) == [j \in 1..Len(table) |-> table[j][1]]

\* Series.min() and Series.max()
series_min(col) == CHOOSE x \in Range(col) : \A y \in Range(col) : x <= y
series_max(col) == CHOOSE x \in Range(col) : \A y \in Range(col) : x >= y

min2(a, b) == IF a <= b THEN a ELSE b
max2(a, b) == IF a >= b THEN a ELSE b

\* one section of statistics_comparison: the extent and the two plotted columns
section(col1, col2) ==
    [extent |-> <<min2(series_min(col1), series_min(col2)),
                  max2(series_max(col2), series_max(col2))>>,
     plotted1 |-> col1,
     plotted2 |-> col2]

\* statistics_comparison(comparison), given the nearest_neighbors_distances
\* of the two EmbeddingReports it builds; a table without columns has no
\* column 0
statistics_comparison(d1, d2) ==
    IF \E j \in 1..Len(d1) : d1[j] = <<>> THEN
        [shown |-> FALSE, error |-> "IndexError", mean_dist |-> <<>>, mean_first_dist |-> <<>>]
    ELSE IF \E j \in 1..Len(d2) : d2[j] = <<>> THEN
        [shown |-> FALSE, error |-> "IndexError", mean_dist |-> <<>>, mean_first_dist |-> <<>>]
    ELSE
        [shown |-> TRUE, error |-> "",
         mean_dist |-> section(mean_axis1(d1), mean_axis1(d2)),
         mean_first_dist |-> section(first_column(d1), first_column(d2))]

\* a call statistics_comparison(comparison) on a comparison of any n_neighbors
InitStats ==
    /\ \E n \in Widths :
          /\ built = create_comparison(n, MinEmbSize)
          /\ dists1 \in DistTables(n, MaxKeys) /\ dists2 \in DistTables(n, MaxKeys)
    /\ obj = NoObject /\ main_pc = "start" /\ advanced_parameters = NoParameters
    /\ stats = NoStats
    /\ IdleWM /\ IdleDisp

StatisticsComparison ==
    /\ built.made /\ ~stats.shown /\ stats.error = ""
    /\ stats' = statistics_comparison(dists1, dists2)
    /\ UNCHANGED <<dists1, dists2>>
    /\ UNCHANGED <<wmVars, cfgVars, dispVars>>

NextStats == StatisticsComparison

SpecStats == InitStats /\ [][NextStats]_vars

Covers(sec) ==
    \A x \in Range(sec.plotted1) \cup Range(sec.plotted2) :
        sec.extent[1] <= x /\ x <= sec.extent[2]

\* C9: the common extent [min, max] handed to the two histograms of each
\* section covers every plotted value of the first embedding and every
\* plotted value of the second embedding.
C9_ExtentCoversBoth ==
    stats.shown => Covers(stats.mean_dist) /\ Covers(stats.mean_first_dist)

(***************************************************************************)
(* main (app.py 24-45) and the construction of AdvancedParameters          *)
(***************************************************************************)
InitCfg == IdleWM /\ IdleCfg /\ IdleStats /\ IdleDisp

\* a direct construction helpers.AdvancedParameters(n_neighbors=n, ...)
ConstructAdvancedParameters ==
    /\ \E n \in EnteredNeighbors, m \in EnteredSizes, f \in EnteredFrequency :
          obj' = [by |-> "AdvancedParameters", object |-> AdvancedParameters(n, m, f)]
    /\ UNCHANGED <<main_pc, advanced_parameters, built>>
    /\ UNCHANGED <<wmVars, statVars, dispVars>>

\* helpers.AdvancedParameters.selection() run with what the user entered
Selection ==
    /\ \E n \in EnteredNeighbors, m \in EnteredSizes, f \in EnteredFrequency :
          obj' = [by |-> "selection", object |-> selection(n, m, f)]
    /\ UNCHANGED <<main_pc, advanced_parameters, built>>
    /\ UNCHANGED <<wmVars, statVars, dispVars>>

\* main: embedding_selection() stops the script when no embedding is configured
MainStop ==
    /\ main_pc = "start"
    /\ main_pc' = "stopped"
    /\ UNCHANGED <<obj, advanced_parameters, built>>
    /\ UNCHANGED <<wmVars, statVars, dispVars>>

\* main: advanced_parameters = get_advanced_parameters()
MainGetAdvancedParameters ==
    /\ main_pc = "start"
    /\ \E n \in EnteredNeighbors, m \in EnteredSizes :
          /\ advanced_parameters' = get_advanced_parameters(n, m)
          /\ obj' = [by |-> "get_advanced_parameters", object |-> advanced_parameters']
    /\ main_pc' = "parameters"
    /\ UNCHANGED built
    /\ UNCHANGED <<wmVars, statVars, dispVars>>

\* main: comparison = create_comparison(emb1_id, emb2_id, n_neighbors, max_emb_size)
MainCreateComparison ==
    /\ main_pc = "parameters"
    /\ built' = create_comparison(advanced_parameters.n_neighbors,
                                  advanced_parameters.max_emb_size)
    /\ dists1' \in DistTables(built'.n_neighbors, 1)
    /\ dists2' \in DistTables(built'.n_neighbors, 1)
    /\ main_pc' = "comparison"
    /\ UNCHANGED <<obj, advanced_parameters, stats>>
    /\ UNCHANGED <<wmVars, dispVars>>

\* main: with tab_stats: statistics_comparison(comparison)
MainStatisticsComparison ==
    /\ main_pc = "comparison"
    /\ stats' = statistics_comparison(dists1, dists2)
    /\ main_pc' = "statistics"
    /\ UNCHANGED <<obj, advanced_parameters, built, dists1, dists2>>
    /\ UNCHANGED <<wmVars, dispVars>>

\* the script is run again from the top on an interaction, wherever it is
MainRerun ==
    /\ main_pc # "start"
    /\ main_pc' = "start"
    /\ advanced_parameters' = NoParameters
    /\ built' = NoBuilt
    /\ dists1' = <<>> /\ dists2' = <<>> /\ stats' = NoStats
    /\ UNCHANGED obj
    /\ UNCHANGED <<wmVars, dispVars>>

NextCfg ==
    \/ ConstructAdvancedParameters
    \/ Selection
    \/ MainStop
    \/ MainGetAdvancedParameters
    \/ MainCreateComparison
    \/ MainStatisticsComparison
    \/ MainRerun

SpecCfg == InitCfg /\ [][NextCfg]_vars

ValidConfiguration(p) == p.n_neighbors >= 1 /\ p.max_emb_size >= 100

\* C7: no AdvancedParameters object holds a non-positive
\* n_neighbors or a max_emb_size below 100, and no EmbeddingComparison is
\* built with such values.
C7_NoInvalidConfiguration ==
    /\ obj.by # "none" => ValidConfiguration(obj.object)
    /\ built.made => built.n_neighbors >= 1 /\ built.n_samples >= 100

(***************************************************************************)
(* display_neighborhoods_elements_comparison (helpers.py 127-201)          *)
(***************************************************************************)
NNeighbors   == 2                   \* comparison.n_neighbors
ElementKeys  == <<"k1", "k2">>      \* the keys that may be displayed, in order
NeighborKeys == {"x", "y"}          \* the keys that may be neighbors

\* the similarity of the neighbor at a rank (percent), per embedding
RankSim1(rank) == IF rank = 1 THEN 90 ELSE 50
RankSim2(rank) == IF rank = 1 THEN 80 ELSE 40

\* the neighbor key sequences get_neighbors may give: distinct keys, at most
\* n_neighbors of them
NeighborKeyLists == {l \in SeqsUpTo(NeighborKeys, NNeighbors) : IsInjective(l)}

\* the sets of possible label mappings of an embedding
LabelMappings == {<<>>, [k \in {"x"} |-> "X"]}

\* labels.get(k, k)
label_get(labels, k) == IF k \in DOMAIN labels THEN labels[k] ELSE k

\* {k: s for k, s in neighborhoods[key]}: the keys in insertion order
dict_keys(neighbors) == [j \in 1..Len(neighbors) |-> neighbors[j][1]]

\* neighbors[k] of that dict
dict_get(neighbors, k) ==
    LET j == CHOOSE j \in 1..Len(neighbors) : neighbors[j][1] = k
    IN  neighbors[j][2]

\* [x for x in s if keep(x)] for the keys of a dict
RECURSIVE filter_in(_, _)
filter_in(s, S) ==
    IF s = <<>> THEN <<>>
    ELSE IF s[1] \in S THEN <<s[1]>> \o filter_in(Tail(s), S)
         ELSE filter_in(Tail(s), S)

\* pd.DataFrame(columns): every column must have the same length
DataFrame(columns) ==
    IF \A a, b \in DOMAIN columns : Len(columns[a]) = Len(columns[b])
    THEN [error |-> "", shown |-> TRUE, columns |-> columns]
    ELSE [error |-> "ValueError", shown |-> FALSE, columns |-> columns]

NoTable == [error |-> "", shown |-> FALSE, columns |-> <<>>]

\* the frequency lines written for the key: one per embedding with frequencies
frequency_lines(e1, e2, key) ==
    (IF e1.frequency_set THEN <<get_frequency(e1, key)>> ELSE <<>>)
    \o (IF e2.frequency_set THEN <<get_frequency(e2, key)>> ELSE <<>>)

\* the body of the loop for one key: what its expander shows
expander(key, e1, e2, labels1, labels2, list1, list2) ==
    LET neighbors1 == dict_keys(list1)
        neighbors2 == dict_keys(list2)
        common_neighbors == filter_in(neighbors1, Range(neighbors2))
        only1 == filter_in(neighbors1, Range(neighbors1) \ Range(common_neighbors))
        only2 == filter_in(neighbors2, Range(neighbors2) \ Range(common_neighbors))
        common_table ==
            IF common_neighbors # <<>>
            THEN DataFrame(
                   [neighbor |-> [j \in 1..Len(common_neighbors) |->
                                     label_get(labels1, common_neighbors[j])],
                    sim1 |-> [j \in 1..Len(common_neighbors) |->
                                     dict_get(list1, common_neighbors[j])],
                    sim2 |-> [j \in 1..Len(common_neighbors) |->
                                     dict_get(list2, common_neighbors[j])]])
            ELSE NoTable
        distinct_table ==
            IF only1 # <<>>
            THEN DataFrame(
                   [neighbor1 |-> [j \in 1..Len(only1) |-> label_get(labels1, only1[j])],
                    sim1 |-> [j \in 1..Len(only1) |-> dict_get(list1, only1[j])],
                    sim2 |-> [j \in 1..Len(only2) |-> dict_get(list2, only2[j])],
                    neighbor2 |-> [j \in 1..Len(only2) |-> label_get(labels2, only2[j])]])
            ELSE NoTable
    IN  [key |-> key,
         label |-> label_get(labels1, key),
         frequencies |-> frequency_lines(e1, e2, key),
         common |-> common_table,
         distinct |-> distinct_table]

\* the loop over the keys: it stops at the first expander that raises
RECURSIVE expanders_from(_, _, _, _, _, _, _)
expanders_from(j, e1, e2, labels1, labels2, n1, n2) ==
    IF j > Len(n1) THEN <<>>
    ELSE LET e == expander(ElementKeys[j], e1, e2, labels1, labels2, n1[j], n2[j])
         IN  IF e.common.error # "" \/ e.distinct.error # ""
             THEN <<e>>
             ELSE <<e>> \o expanders_from(j + 1, e1, e2, labels1, labels2, n1, n2)

display_neighborhoods_elements_comparison(e1, e2, labels1, labels2, n1, n2) ==
    LET shown == expanders_from(1, e1, e2, labels1, labels2, n1, n2)
        last  == shown[Len(shown)]
    IN  [status |-> IF last.common.error # "" THEN last.common.error
                    ELSE IF last.distinct.error # "" THEN last.distinct.error
                    ELSE "done",
         expanders |-> shown]

\* emb.get_neighbors(n_neighbors, keys): one neighbor list per displayed key
Neighborhoods1 ==
    {[j \in 1..Len(ks) |-> [r \in 1..Len(ks[j]) |-> <<ks[j][r], RankSim1(r)>>]] :
        ks \in UNION {[1..n -> NeighborKeyLists] : n \in 1..Len(ElementKeys)}}

Neighborhoods2 ==
    {[j \in 1..Len(ks) |-> [r \in 1..Len(ks[j]) |-> <<ks[j][r], RankSim2(r)>>]] :
        ks \in UNION {[1..n -> NeighborKeyLists] : n \in 1..Len(ElementKeys)}}

DisplayEmbeddings ==
    {NoEmbedding, [frequency_set |-> TRUE, frequencies |-> [k \in {"k1"} |-> 2]]}

InitDisp ==
    /\ neighborhoods_1 \in Neighborhoods1
    /\ neighborhoods_2 \in Neighborhoods2
    /\ Len(neighborhoods_1) = Len(neighborhoods_2)
    /\ emb1_labels \in LabelMappings /\ emb2_labels \in LabelMappings
    /\ emb1 \in DisplayEmbeddings /\ emb2 = NoEmbedding
    /\ display = NoDisplay
    /\ comparison = NoComparison
    /\ values = <<>> /\ weights = <<>> /\ order = <<>>
    /\ result = NoResult /\ called = "none"
    /\ IdleCfg /\ IdleStats

DisplayNeighborhoodsElementsComparison ==
    /\ display.status = "not called"
    /\ display' = display_neighborhoods_elements_comparison(
                      emb1, emb2, emb1_labels, emb2_labels,
                      neighborhoods_1, neighborhoods_2)
    /\ UNCHANGED <<neighborhoods_1, neighborhoods_2, emb1_labels, emb2_labels>>
    /\ UNCHANGED <<wmVars, cfgVars, statVars>>

NextDisp == DisplayNeighborhoodsElementsComparison

SpecDisp == InitDisp /\ [][NextDisp]_vars

\* how many cells of a column hold the label
Occurrences(col, lab) == Cardinality({j \in DOMAIN col : col[j] = lab})

\* how many times the tables of an expander show the label as a neighbor
TimesShown(e, lab) ==
    (IF e.common.shown THEN Occurrences(e.common.columns.neighbor, lab) ELSE 0)
    + (IF e.distinct.shown
       THEN Occurrences(e.distinct.columns.neighbor1, lab)
            + Occurrences(e.distinct.columns.neighbor2, lab)
       ELSE 0)

ShownAsCommon(e, lab) ==
    e.common.shown /\ Occurrences(e.common.columns.neighbor, lab) = 1

ShownAsDistinct(e, lab) ==
    /\ e.distinct.shown
    /\ Occurrences(e.distinct.columns.neighbor1, lab)
         + Occurrences(e.distinct.columns.neighbor2, lab) = 1

\* C10: for every displayed key and any two neighbor lists of length at
\* most n_neighbors, the display completes without failure and every
\* neighbor of the key in either embedding is shown exactly once: in the
\* common-neighbors table when it is in both lists, in the
\* distinct-neighbors table otherwise.
C10_EveryNeighborShownOnce ==
    display.status # "not called"
    => /\ display.status = "done"
       /\ Len(display.expanders) = Len(neighborhoods_1)
       /\ \A j \in 1..Len(display.expanders) :
             LET e  == display.expanders[j]
                 k1 == Range(dict_keys(neighborhoods_1[j]))
                 k2 == Range(dict_keys(neighborhoods_2[j]))
             IN  /\ \A k \in k1 \cap k2 :
                       /\ ShownAsCommon(e, label_get(emb1_labels, k))
                       /\ TimesShown(e, label_get(emb1_labels, k)) = 1
                 /\ \A k \in k1 \ k2 :
                       /\ ShownAsDistinct(e, label_get(emb1_labels, k))
                       /\ TimesShown(e, label_get(emb1_labels, k)) = 1
                 /\ \A k \in k2 \ k1 :
                       /\ ShownAsDistinct(e, label_get(emb2_labels, k))
                       /\ TimesShown(e, label_get(emb2_labels, k)) = 1

====
